---- MODULE Spec2Model ----
(***************************************************************************)
(* Content-idea analysis pipeline of ContentMediaHubDemo.                  *)
(*                                                                         *)
(*   submit-idea/index.ts      Submission Intake: validate, authenticate,  *)
(*                             insert the row, dispatch analyze-content    *)
(*   analyze-content/index.ts  Analysis Orchestrator: analyzing write,     *)
(*                             Brave search, OpenAI completion, score      *)
(*                             extraction, terminal write / catch block    *)
(*                                                                         *)
(* Every `await` of a handler is a point where other handlers interleave,  *)
(* so each handler is a small process whose pc names the await it is at.   *)
(* The persistence layer under Spec answers every write; the writes that   *)
(* fail are a separate fault model.                                        *)
(***************************************************************************)
EXTENDS Integers, Sequences, FiniteSets, TLC

\* ------------------------------------------------------------------ bounds
MaxSubmits == 1      \* submit-idea requests received
MaxRuns == 2         \* analyze-content requests received
MaxResults == 6      \* results the search provider may return
MaxTextLen == 4      \* tokens of a text given to the score extraction
MaxTitleLen == 3     \* tokens of a submitted title given to the prompt
MaxDigests == 1      \* generate-daily-insights requests received

\* ------------------------------------------------------------ JS values
Undefined == [kind |-> "undefined"]
Null == [kind |-> "null"]
Str(s) == [kind |-> "str", v |-> s]
Num(n) == [kind |-> "num", v |-> n]

\* JavaScript truthiness, as used by !title, !idea_id, content || ...
Falsy(x) ==
    \/ x.kind \in {"undefined", "null"}
    \/ x.kind = "str" /\ x.v = <<>>
    \/ x.kind = "num" /\ x.v = 0

IsNull(x) == x.kind \in {"undefined", "null"}

\* ---------------------------------------------------------------- texts
\* A text is a sequence of tokens.  The tokens that the code's regular
\* expressions distinguish are kept apart; BODY stands for any other markup.
\* In the token names ' is written for the backtick and for the double quote.
FENCE_OPEN == "'''html"
FENCE == "'''"
NL == "\n"
BODY == "<html>"
MARK_OPEN == "<strong style='font-size: 1.2em; color: #FF7A59;'>"
MARK_CLOSE == "/100</strong>"
Digits == {"0", "1", "2", "3", "4", "5", "6", "7", "8", "9"}

DigitVal(d) ==
    CASE d = "0" -> 0 [] d = "1" -> 1 [] d = "2" -> 2 [] d = "3" -> 3
      [] d = "4" -> 4 [] d = "5" -> 5 [] d = "6" -> 6 [] d = "7" -> 7
      [] d = "8" -> 8 [] d = "9" -> 9

\* the fallback document of analyze-content
ErrorReport == <<"<html><body>Error generating report.</body></html>">>

Min(a, b) == IF a < b THEN a ELSE b

\* analysisHtml.replace(/^'''html\n/, '')
StripLeadingFence(t) ==
    IF Len(t) >= 2 /\ t[1] = FENCE_OPEN /\ t[2] = NL
    THEN SubSeq(t, 3, Len(t))
    ELSE t

\* analysisHtml.replace(/\n'''$/, '')
StripTrailingFence(t) ==
    IF Len(t) >= 2 /\ t[Len(t) - 1] = NL /\ t[Len(t)] = FENCE
    THEN SubSeq(t, 1, Len(t) - 2)
    ELSE t

StripFences(t) == StripTrailingFence(StripLeadingFence(t))

\* length of the run of digit tokens that starts at position i  (\d+)
RECURSIVE DigitRun(_, _)
DigitRun(t, i) ==
    IF i <= Len(t) /\ t[i] \in Digits THEN 1 + DigitRun(t, i + 1) ELSE 0

MatchAt_AnyStrong(t, i) ==
    /\ t[i] \in {MARK_OPEN, "<strong>"}
    /\ DigitRun(t, i + 1) >= 1
    /\ i + DigitRun(t, i + 1) + 1 <= Len(t)
    /\ t[i + DigitRun(t, i + 1) + 1] = MARK_CLOSE

\* the regular expression of scoreMatch matches at position i
MatchAt(t, i) ==
    /\ t[i] = MARK_OPEN
    /\ DigitRun(t, i + 1) >= 1
    /\ i + DigitRun(t, i + 1) + 1 <= Len(t)
    /\ t[i + DigitRun(t, i + 1) + 1] = MARK_CLOSE

\* parseInt(digits, 10)
RECURSIVE parseInt(_)
parseInt(ds) ==
    IF ds = <<>> THEN 0
    ELSE 10 * parseInt(SubSeq(ds, 1, Len(ds) - 1)) + DigitVal(ds[Len(ds)])

\* scoreMatch: the capture group of the leftmost match, or Null
scoreMatch(t) ==
    IF \E i \in 1..Len(t) : MatchAt(t, i)
    THEN LET i == CHOOSE j \in 1..Len(t) :
                      MatchAt(t, j) /\ \A k \in 1..(j - 1) : ~MatchAt(t, k)
         IN Str(SubSeq(t, i + 1, i + DigitRun(t, i + 1)))
    ELSE Null

\* const score = scoreMatch ? parseInt(scoreMatch[1], 10) : null
score(t) ==
    IF scoreMatch(t) = Null THEN Null ELSE Num(parseInt(scoreMatch(t).v))

analysisHtml_NoFallback(content) ==
    StripFences(IF Falsy(content) THEN <<>> ELSE content.v)

\* let analysisHtml = content || '<html><body>Error generating report.</body></html>'
\* followed by the two replace calls
analysisHtml(content) ==
    StripFences(IF Falsy(content) THEN ErrorReport ELSE content.v)

\* braveData.web?.results.slice(0, 5).map(...) || []
SEARCH_CONTEXT_LIMIT == 5
searchContext(results) ==
    SubSeq(results, 1, Min(SEARCH_CONTEXT_LIMIT, Len(results)))

\* ---------------------------------------------------- prompt construction
\* a title is a sequence of tokens: plain characters, the characters that
\* String.prototype.replace reads in a replacement string, and the text of
\* the placeholder itself
PLACEHOLDER == "{{IDEA_TITLE}}"
DOLLAR == "$"
AMPERSAND == "&"
APOSTROPHE == "'"
GRAVE == "GRAVE_ACCENT"

\* shared/prompt_blueprint.ts: the template holds the placeholder once, in
\* the h2 of line 12; the other two tokens are the text before and after it
analysisBlueprint == <<"BLUEPRINT_BEFORE_H2", PLACEHOLDER, "BLUEPRINT_AFTER_H2">>

\* the replacement string as String.prototype.replace expands it for a string
\* pattern: $$ is one dollar, $& the match, $(grave accent) the text before
\* the match, $' the text after it; any other $ stands for itself
RECURSIVE GetSubstitution(_, _, _, _)
GetSubstitution(replacement, matched, before, after) ==
    IF replacement = <<>> THEN <<>>
    ELSE IF Head(replacement) = DOLLAR /\ Len(replacement) >= 2
              /\ replacement[2] \in {DOLLAR, AMPERSAND, GRAVE, APOSTROPHE}
    THEN (CASE replacement[2] = DOLLAR -> <<DOLLAR>>
            [] replacement[2] = AMPERSAND -> matched
            [] replacement[2] = GRAVE -> before
            [] replacement[2] = APOSTROPHE -> after)
         \o GetSubstitution(SubSeq(replacement, 3, Len(replacement)),
                            matched, before, after)
    ELSE <<Head(replacement)>>
         \o GetSubstitution(Tail(replacement), matched, before, after)

\* text.replace(pattern, replacement) with a string pattern: the first
\* occurrence only, the replacement expanded
replace(text, pattern, replacement) ==
    IF \E i \in 1..Len(text) : text[i] = pattern
    THEN LET i == CHOOSE j \in 1..Len(text) :
                      text[j] = pattern /\ \A k \in 1..(j - 1) : text[k] # pattern
             before == SubSeq(text, 1, i - 1)
             after == SubSeq(text, i + 1, Len(text))
         IN before \o GetSubstitution(replacement, <<pattern>>, before, after) \o after
    ELSE text

\* JSON.stringify(searchContext, null, 2): the records in order, separated
\* by commas, between brackets
RECURSIVE stringifyItems(_)
stringifyItems(context) ==
    IF context = <<>> THEN <<>>
    ELSE IF Len(context) = 1 THEN <<ToString(context[1])>>
    ELSE <<ToString(context[1]), ",">> \o stringifyItems(Tail(context))

stringify(context) == <<"[">> \o stringifyItems(context) \o <<"]">>

\* const finalBlueprint = analysisBlueprint.replace('{{IDEA_TITLE}}', idea.title)
finalBlueprint(title) == replace(analysisBlueprint, PLACEHOLDER, title)

\* const prompt = `... Title: ${idea.title} Web Search Results:
\* ${JSON.stringify(searchContext, null, 2)} ... ${finalBlueprint}`
prompt(title, context) ==
    <<"INSTRUCTIONS", "Title:">> \o title
    \o <<"Web Search Results:">> \o stringify(context)
    \o <<"HTML TEMPLATE TO COMPLETE:">> \o finalBlueprint(title)

\* ------------------------------------------------------ environment inputs
\* body.title of a submit-idea request
Titles == {Undefined, Str(<<>>), Str(<<"idea">>)}

\* {data: {user}, error} of supabaseClient.auth.getUser(): a user, an error,
\* or neither
AuthOutcomes ==
    {[user |-> Str(<<"user">>), error |-> FALSE],
     [user |-> Null, error |-> TRUE],
     [user |-> Null, error |-> FALSE]}

\* body.idea_id of an analyze-content request sent by some caller
TriggerIds == {Undefined} \cup {Num(n) : n \in 1..MaxSubmits}

\* what the search provider answers: the fetch rejects, or a response with
\* its ok flag and the shape of its body.  An error response carries an
\* error document (JSON without a web object) or no JSON at all.
ResultCounts == {0, MaxResults}
SearchBodies ==
    {[shape |-> "unparseable"], [shape |-> "no_web"], [shape |-> "web_no_results"]}
    \cup {[shape |-> "results", results |-> [i \in 1..n |-> i]] : n \in ResultCounts}
SearchOutcomes ==
    {[fetch |-> "rejected"]}
    \cup {[fetch |-> "response", ok |-> TRUE, body |-> b] : b \in SearchBodies}
    \cup {[fetch |-> "response", ok |-> FALSE, body |-> b] :
             b \in {[shape |-> "unparseable"], [shape |-> "no_web"]}}

\* choices[0].message.content of a successful completion response
Contents ==
    { Null,
      Str(<<>>),
      Str(<<BODY>>),
      Str(<<FENCE_OPEN, NL, MARK_OPEN, "7", "3", MARK_CLOSE, NL, FENCE>>),
      Str(<<MARK_OPEN, "1", "5", "0", MARK_CLOSE>>) }

\* what the completion service answers
CompletionOutcomes ==
    {[fetch |-> "rejected"],
     [fetch |-> "response", ok |-> FALSE],
     [fetch |-> "response", ok |-> TRUE, body |-> "unparseable"],
     [fetch |-> "response", ok |-> TRUE, body |-> "no_choices"]}
    \cup {[fetch |-> "response", ok |-> TRUE, body |-> "choices", content |-> c] :
             c \in Contents}

\* ------------------------------------------------------------------ state
VARIABLES
    content_ideas,   \* table content_ideas: sequence of rows, id = position
    submits,         \* submit-idea handlers in flight, each at one of its awaits
    runs,            \* analyze-content handlers in flight, each at one of its awaits
    responses,       \* HTTP responses the two functions have returned
    received,        \* number of requests each function has received
    db_faults,       \* TRUE when the persistence layer may refuse a write
    daily_insights,  \* table daily_insights: sequence of rows, id = position
    digests          \* generate-daily-insights handlers, in order of arrival

vars == <<content_ideas, submits, runs, responses, received, db_faults,
          daily_insights, digests>>

\* new Response(JSON.stringify(body), {status}) in answer to a request
Response(fn, request, status, body) ==
    [fn |-> fn, request |-> request, status |-> status, body |-> body]

RemoveAt(seq, i) == SubSeq(seq, 1, i - 1) \o SubSeq(seq, i + 1, Len(seq))

\* outcome of one persistence write: it is applied, or (faulty storage) refused
WriteOutcomes == IF db_faults THEN {TRUE, FALSE} ELSE {TRUE}

RowExists(id) == id.kind = "num" /\ id.v \in 1..Len(content_ideas)

UpdateStatus_NoFilter(rows, id, status) ==
    [i \in 1..Len(rows) |-> [rows[i] EXCEPT !.analysis_status = status]]

UpdateStatus_WholeRow(rows, id, status) ==
    IF id.kind = "num" /\ id.v \in 1..Len(rows)
    THEN [rows EXCEPT ![id.v].analysis_status = status,
                      ![id.v].project_status = "New"]
    ELSE rows

\* supabase.from('content_ideas').update({analysis_status}).eq('id', id)
UpdateStatus(rows, id, status) ==
    IF id.kind = "num" /\ id.v \in 1..Len(rows)
    THEN [rows EXCEPT ![id.v].analysis_status = status]
    ELSE rows

UpdateCompleted_StatusLeft(rows, id, sc, html) ==
    IF id.kind = "num" /\ id.v \in 1..Len(rows)
    THEN [rows EXCEPT ![id.v].score = sc,
                      ![id.v].analysis = html]
    ELSE rows

UpdateCompleted_NoAnalysis(rows, id, sc, html) ==
    IF id.kind = "num" /\ id.v \in 1..Len(rows)
    THEN [rows EXCEPT ![id.v].analysis_status = "completed",
                      ![id.v].score = sc]
    ELSE rows

\* update({analysis_status: 'completed', score, analysis}).eq('id', id)
UpdateCompleted(rows, id, sc, html) ==
    IF id.kind = "num" /\ id.v \in 1..Len(rows)
    THEN [rows EXCEPT ![id.v].analysis_status = "completed",
                      ![id.v].score = sc,
                      ![id.v].analysis = html]
    ELSE rows

\* a request to analyze-content as it reaches the handler
NewRun(id) ==
    [pc |-> "start", idea_id |-> id, supabaseAdmin |-> FALSE, idea |-> Null,
     braveResponse |-> "none", searchContext |-> <<>>,
     openAIResponse |-> "none", analysisHtml |-> Null, score |-> Null,
     searchCalls |-> 0, completionCalls |-> 0, error |-> "", prompt |-> Null]

Init ==
    /\ content_ideas = <<>>
    /\ submits = <<>>
    /\ runs = <<>>
    /\ responses = {}
    /\ received = [submits |-> 0, runs |-> 0]
    /\ db_faults = FALSE
    /\ daily_insights = <<>>
    /\ digests = <<>>

\* ------------------------------------------------- submit-idea/index.ts
\* catch block: 400 with {error: error.message}
SubmitError(title, msg) ==
    Response("submit-idea", [title |-> title], 400, [error |-> msg])

TitleMissing_OnlyUndefined(title) == title = Undefined

\* if (!title)
TitleMissing(title) == Falsy(title)

\* a request arrives; const {title} = await req.json(); if (!title) throw;
\* otherwise createClient and auth.getUser() is awaited
SubmitStart(title) ==
    /\ received.submits < MaxSubmits
    /\ received' = [received EXCEPT !.submits = @ + 1]
    /\ IF TitleMissing(title)
       THEN /\ responses' = responses \cup
                              {SubmitError(title, "Missing required field: title")}
            /\ UNCHANGED submits
       ELSE /\ submits' = Append(submits, [pc |-> "auth", title |-> title,
                                           user |-> Null])
            /\ UNCHANGED responses
    /\ UNCHANGED <<content_ideas, runs, db_faults, daily_insights, digests>>

AuthFailure_UserNotChecked(outcome) ==
    IF outcome.error THEN "userError" ELSE ""

\* if (userError) throw userError; if (!user) throw new Error('User not found')
\* the message thrown, or "" when the request is authenticated
AuthFailure(outcome) ==
    IF outcome.error THEN "userError"
    ELSE IF IsNull(outcome.user) THEN "User not found"
    ELSE ""

\* await supabaseClient.auth.getUser(); throw on userError or on no user;
\* otherwise the insert is awaited
SubmitAuth(s, outcome) ==
    /\ submits[s].pc = "auth"
    /\ IF AuthFailure(outcome) = ""
       THEN /\ submits' = [submits EXCEPT ![s].pc = "insert",
                                          ![s].user = outcome.user]
            /\ UNCHANGED responses
       ELSE /\ submits' = RemoveAt(submits, s)
            /\ responses' = responses \cup
                 {SubmitError(submits[s].title, AuthFailure(outcome))}
    /\ UNCHANGED <<content_ideas, runs, received, db_faults, daily_insights, digests>>

NewIdea_Pending(sub) ==
    [title |-> sub.title, user_id |-> sub.user,
     analysis_status |-> "pending", project_status |-> "New",
     score |-> Null, analysis |-> Null]

\* the row that insert({title, user_id, analysis_status, project_status})
\* creates; score and analysis take the column default
NewIdea(sub) ==
    [title |-> sub.title, user_id |-> sub.user,
     analysis_status |-> "analyzing", project_status |-> "New",
     score |-> Null, analysis |-> Null]

SubmitInsert_DispatchBeforeInsert(s, inserted, started) ==
    /\ submits[s].pc = "insert"
    /\ inserted \in WriteOutcomes \cup {FALSE}
    /\ submits' = RemoveAt(submits, s)
    /\ LET newIdea == NewIdea(submits[s])
           id == Len(content_ideas) + 1
       IN /\ IF started
             THEN /\ received.runs < MaxRuns
                  /\ received' = [received EXCEPT !.runs = @ + 1]
                  /\ runs' = Append(runs, NewRun(Num(id)))
             ELSE UNCHANGED <<runs, received>>
          /\ IF inserted
             THEN /\ content_ideas' = Append(content_ideas, newIdea)
                  /\ responses' = responses \cup
                       {Response("submit-idea", [title |-> submits[s].title], 201,
                                 [id |-> id, row |-> newIdea])}
             ELSE /\ UNCHANGED content_ideas
                  /\ responses' = responses \cup
                       {SubmitError(submits[s].title, "insertError")}
    /\ UNCHANGED <<db_faults, daily_insights, digests>>

SubmitInsert_DispatchFailureFails(s, inserted, started) ==
    /\ submits[s].pc = "insert"
    /\ inserted \in WriteOutcomes
    /\ submits' = RemoveAt(submits, s)
    /\ IF ~inserted
       THEN /\ responses' = responses \cup
                              {SubmitError(submits[s].title, "insertError")}
            /\ UNCHANGED <<content_ideas, runs, received>>
       ELSE LET newIdea == NewIdea(submits[s])
                id == Len(content_ideas) + 1
            IN /\ content_ideas' = Append(content_ideas, newIdea)
               /\ IF started
                  THEN /\ received.runs < MaxRuns
                       /\ received' = [received EXCEPT !.runs = @ + 1]
                       /\ runs' = Append(runs, NewRun(Num(id)))
                       /\ responses' = responses \cup
                            {Response("submit-idea", [title |-> submits[s].title],
                                      201, [id |-> id, row |-> newIdea])}
                  ELSE /\ UNCHANGED <<runs, received>>
                       /\ responses' = responses \cup
                            {SubmitError(submits[s].title, "invokeError")}
    /\ UNCHANGED <<db_faults, daily_insights, digests>>

\* await insert(...).select().single(); throw on insertError; otherwise
\* functions.invoke('analyze-content', {idea_id: newIdea.id}) is not awaited
\* (the request reaches analyze-content or fails to start) and the row is
\* returned at once with 201
SubmitInsert(s, inserted, started) ==
    /\ submits[s].pc = "insert"
    /\ inserted \in WriteOutcomes
    /\ submits' = RemoveAt(submits, s)
    /\ IF ~inserted
       THEN /\ responses' = responses \cup
                              {SubmitError(submits[s].title, "insertError")}
            /\ UNCHANGED <<content_ideas, runs, received>>
       ELSE LET newIdea == NewIdea(submits[s])
                id == Len(content_ideas) + 1
            IN /\ content_ideas' = Append(content_ideas, newIdea)
               /\ IF started
                  THEN /\ received.runs < MaxRuns
                       /\ received' = [received EXCEPT !.runs = @ + 1]
                       /\ runs' = Append(runs, NewRun(Num(id)))
                  ELSE UNCHANGED <<runs, received>>
               /\ responses' = responses \cup
                    {Response("submit-idea", [title |-> submits[s].title], 201,
                              [id |-> id, row |-> newIdea])}
    /\ UNCHANGED <<db_faults, daily_insights, digests>>

\* ----------------------------------------------- analyze-content/index.ts
\* some caller posts {idea_id} to analyze-content
Trigger(id) ==
    /\ received.runs < MaxRuns
    /\ received' = [received EXCEPT !.runs = @ + 1]
    /\ runs' = Append(runs, NewRun(id))
    /\ UNCHANGED <<content_ideas, submits, responses, db_faults, daily_insights, digests>>

\* The locals of a handler are kept while a later statement reads them: the
\* catch block reads idea_id, supabaseAdmin and error.

\* throw: control reaches the catch block, whose update is awaited
Throw(run, msg) ==
    [NewRun(run.idea_id) EXCEPT !.pc = "catch", !.error = msg,
                                !.supabaseAdmin = run.supabaseAdmin,
                                !.braveResponse = run.braveResponse,
                                !.openAIResponse = run.openAIResponse,
                                !.searchCalls = run.searchCalls,
                                !.completionCalls = run.completionCalls]

\* return new Response(JSON.stringify({error: error.message}), {status: 500})
Respond500(run) ==
    Response("analyze-content", [idea_id |-> run.idea_id], 500,
             [error |-> run.error])

\* return new Response(JSON.stringify({success: true, idea_id}))
Respond200(run) ==
    Response("analyze-content", [idea_id |-> run.idea_id], 200,
             [success |-> TRUE, idea_id |-> run.idea_id])

AnalyzeStart_IdUnchecked(r, written) ==
    /\ runs[r].pc = "start"
    /\ written \in WriteOutcomes
    /\ LET run == runs[r]
           id == run.idea_id
       IN IF ~written \/ ~RowExists(id)
          THEN /\ runs' = [runs EXCEPT ![r] =
                             Throw([run EXCEPT !.supabaseAdmin = TRUE], "ideaError")]
               /\ UNCHANGED <<content_ideas, responses>>
          ELSE /\ content_ideas' = UpdateStatus(content_ideas, id, "analyzing")
               /\ runs' = [runs EXCEPT ![r] =
                             [run EXCEPT !.supabaseAdmin = TRUE,
                                         !.idea = [title |-> content_ideas[id.v].title],
                                         !.searchCalls = @ + 1,
                                         !.pc = "search"]]
               /\ UNCHANGED responses
    /\ UNCHANGED <<submits, received, db_faults, daily_insights, digests>>

AnalyzeStart_FanOut(r, written) ==
    /\ runs[r].pc = "start"
    /\ written \in WriteOutcomes
    /\ LET run == runs[r]
           id == run.idea_id
       IN IF Falsy(id)
          THEN /\ runs' = RemoveAt(runs, r)
               /\ responses' = responses \cup
                    {Respond500([run EXCEPT !.error = "Missing required field: idea_id"])}
               /\ UNCHANGED content_ideas
          ELSE IF ~written \/ ~RowExists(id)
          THEN /\ runs' = [runs EXCEPT ![r] =
                             Throw([run EXCEPT !.supabaseAdmin = TRUE], "ideaError")]
               /\ UNCHANGED <<content_ideas, responses>>
          ELSE /\ content_ideas' = UpdateStatus(content_ideas, id, "analyzing")
               /\ runs' = [runs EXCEPT ![r] =
                             [run EXCEPT !.supabaseAdmin = TRUE,
                                         !.idea = [title |-> content_ideas[id.v].title],
                                         !.searchCalls = @ + 1,
                                         !.completionCalls = @ + 1,
                                         !.pc = "search"]]
               /\ UNCHANGED responses
    /\ UNCHANGED <<submits, received, db_faults, daily_insights, digests>>

\* body.idea_id check, createClient, and
\* await update({analysis_status: 'analyzing'}).eq('id', idea_id).select().single();
\* on success the search request is sent
AnalyzeStart(r, written) ==
    /\ runs[r].pc = "start"
    /\ written \in WriteOutcomes
    /\ LET run == runs[r]
           id == run.idea_id
       IN IF Falsy(id)
          THEN \* supabaseAdmin is still undefined: the catch block writes nothing
               /\ runs' = RemoveAt(runs, r)
               /\ responses' = responses \cup
                    {Respond500([run EXCEPT !.error = "Missing required field: idea_id"])}
               /\ UNCHANGED content_ideas
          ELSE IF ~written \/ ~RowExists(id)
          THEN \* ideaError: the write was refused, or single() found no row
               /\ runs' = [runs EXCEPT ![r] =
                             Throw([run EXCEPT !.supabaseAdmin = TRUE], "ideaError")]
               /\ UNCHANGED <<content_ideas, responses>>
          ELSE /\ content_ideas' = UpdateStatus(content_ideas, id, "analyzing")
               /\ runs' = [runs EXCEPT ![r] =
                             [run EXCEPT !.supabaseAdmin = TRUE,
                                         !.idea = [title |-> content_ideas[id.v].title],
                                         !.searchCalls = @ + 1,
                                         !.pc = "search"]]
               /\ UNCHANGED responses
    /\ UNCHANGED <<submits, received, db_faults, daily_insights, digests>>

\* the search context is in hand: the prompt is built and the completion
\* request is sent
CallCompletion(run, context) ==
    [run EXCEPT !.searchContext = context,
                !.prompt = Str(prompt(run.idea.title.v, context)),
                !.completionCalls = @ + 1,
                !.pc = "completion"]

SearchReturned_RejectionSwallowed(run, out) ==
    IF out.fetch = "rejected"
    THEN CallCompletion([run EXCEPT !.braveResponse = "rejected"], <<>>)
    ELSE LET got == [run EXCEPT !.braveResponse =
                                   IF out.ok THEN "ok" ELSE "not_ok"]
         IN CASE out.body.shape = "unparseable" ->
                   Throw(got, "SyntaxError: search")
              [] out.body.shape = "web_no_results" ->
                   Throw(got, "TypeError: search")
              [] out.body.shape = "results" ->
                   CallCompletion(got, searchContext(out.body.results))
              [] OTHER -> CallCompletion(got, <<>>)

SearchReturned_Retried(run, out) ==
    IF out.fetch = "rejected"
    THEN [run EXCEPT !.braveResponse = "rejected", !.searchCalls = @ + 1]
    ELSE LET got == [run EXCEPT !.braveResponse =
                                   IF out.ok THEN "ok" ELSE "not_ok"]
         IN CASE out.body.shape = "unparseable" ->
                   Throw(got, "SyntaxError: search")
              [] out.body.shape = "web_no_results" ->
                   Throw(got, "TypeError: search")
              [] out.body.shape = "results" ->
                   CallCompletion(got, searchContext(out.body.results))
              [] OTHER -> CallCompletion(got, <<>>)

\* const braveResponse = await fetch(...): a rejection throws;
\* await braveResponse.json(): a body that is no JSON throws;
\* braveData.web?.results.slice(0, 5).map(...) || []: a web object without
\* results throws, no web object gives []
SearchReturned(run, out) ==
    IF out.fetch = "rejected"
    THEN Throw([run EXCEPT !.braveResponse = "rejected"], "fetch failed: search")
    ELSE LET got == [run EXCEPT !.braveResponse =
                                   IF out.ok THEN "ok" ELSE "not_ok"]
         IN CASE out.body.shape = "unparseable" ->
                   Throw(got, "SyntaxError: search")
              [] out.body.shape = "web_no_results" ->
                   Throw(got, "TypeError: search")
              [] out.body.shape = "results" ->
                   CallCompletion(got, searchContext(out.body.results))
              [] OTHER -> CallCompletion(got, <<>>)

\* await fetch(braveApiUrl...); await braveResponse.json(); searchContext;
\* the prompt is built and the completion request is sent
AnalyzeSearch(r, out) ==
    /\ runs[r].pc = "search"
    /\ runs' = [runs EXCEPT ![r] = SearchReturned(runs[r], out)]
    /\ UNCHANGED <<content_ideas, submits, responses, received, db_faults, daily_insights, digests>>

SendCompleted_RawText(run, content) ==
    LET raw == IF Falsy(content) THEN ErrorReport ELSE content.v
    IN [run EXCEPT !.analysisHtml = Str(raw),
                   !.score = score(raw),
                   !.idea = Null,
                   !.searchContext = <<>>,
                   !.prompt = Null,
                   !.pc = "write"]

\* analysisHtml and score are computed and the terminal update is sent
SendCompleted(run, content) ==
    [run EXCEPT !.analysisHtml = Str(analysisHtml(content)),
                !.score = score(analysisHtml(content)),
                !.idea = Null,
                !.searchContext = <<>>,
                !.prompt = Null,
                !.pc = "write"]

CompletionReturned_NoChoicesFallback(run, out) ==
    IF out.fetch = "rejected"
    THEN Throw([run EXCEPT !.openAIResponse = "rejected"],
               "fetch failed: completion")
    ELSE IF ~out.ok
    THEN Throw([run EXCEPT !.openAIResponse = "not_ok"],
               "OpenAI API request failed with status")
    ELSE LET got == [run EXCEPT !.openAIResponse = "ok"]
         IN CASE out.body = "unparseable" -> Throw(got, "SyntaxError: completion")
              [] out.body = "no_choices" -> SendCompleted(got, Null)
              [] OTHER -> SendCompleted(got, out.content)

CompletionReturned_StatusUnchecked(run, out) ==
    IF out.fetch = "rejected"
    THEN Throw([run EXCEPT !.openAIResponse = "rejected"],
               "fetch failed: completion")
    ELSE IF ~out.ok
    THEN SendCompleted([run EXCEPT !.openAIResponse = "not_ok"], Null)
    ELSE LET got == [run EXCEPT !.openAIResponse = "ok"]
         IN CASE out.body = "unparseable" -> Throw(got, "SyntaxError: completion")
              [] out.body = "no_choices" -> Throw(got, "TypeError: completion")
              [] OTHER -> SendCompleted(got, out.content)

\* const openAIResponse = await fetch(...): a rejection throws;
\* if (!openAIResponse.ok) throw; await openAIResponse.json(): a body that is
\* no JSON throws; chatCompletion.choices[0].message.content: no choice throws
CompletionReturned(run, out) ==
    IF out.fetch = "rejected"
    THEN Throw([run EXCEPT !.openAIResponse = "rejected"],
               "fetch failed: completion")
    ELSE IF ~out.ok
    THEN Throw([run EXCEPT !.openAIResponse = "not_ok"],
               "OpenAI API request failed with status")
    ELSE LET got == [run EXCEPT !.openAIResponse = "ok"]
         IN CASE out.body = "unparseable" -> Throw(got, "SyntaxError: completion")
              [] out.body = "no_choices" -> Throw(got, "TypeError: completion")
              [] OTHER -> SendCompleted(got, out.content)

\* await fetch(openai...); if (!openAIResponse.ok) throw; await json();
\* analysisHtml; scoreMatch; score; the terminal update is sent
AnalyzeCompletion(r, out) ==
    /\ runs[r].pc = "completion"
    /\ runs' = [runs EXCEPT ![r] = CompletionReturned(runs[r], out)]
    /\ UNCHANGED <<content_ideas, submits, responses, received, db_faults, daily_insights, digests>>

\* await update({analysis_status: 'completed', score, analysis}).eq('id', idea_id)
\* (its result is not inspected); return {success: true, idea_id}
AnalyzeWrite(r, written) ==
    /\ runs[r].pc = "write"
    /\ written \in WriteOutcomes
    /\ LET run == runs[r]
       IN /\ content_ideas' =
               IF written
               THEN UpdateCompleted(content_ideas, run.idea_id, run.score,
                                    run.analysisHtml)
               ELSE content_ideas
          /\ responses' = responses \cup {Respond200(run)}
    /\ runs' = RemoveAt(runs, r)
    /\ UNCHANGED <<submits, received, db_faults, daily_insights, digests>>

AnalyzeCatch_RecoveryErrorReported(r, written) ==
    /\ runs[r].pc = "catch"
    /\ written \in WriteOutcomes
    /\ LET run == runs[r]
       IN /\ content_ideas' =
               IF ~Falsy(run.idea_id) /\ run.supabaseAdmin /\ written
               THEN UpdateStatus(content_ideas, run.idea_id, "failed")
               ELSE content_ideas
          /\ responses' = responses \cup
               {IF written THEN Respond500(run)
                ELSE Respond500([run EXCEPT !.error = "recovery write failed"])}
    /\ runs' = RemoveAt(runs, r)
    /\ UNCHANGED <<submits, received, db_faults, daily_insights, digests>>

\* catch: if (idea_id && supabaseAdmin) await update({analysis_status: 'failed'});
\* return the 500 response
AnalyzeCatch(r, written) ==
    /\ runs[r].pc = "catch"
    /\ written \in WriteOutcomes
    /\ LET run == runs[r]
       IN /\ content_ideas' =
               IF ~Falsy(run.idea_id) /\ run.supabaseAdmin /\ written
               THEN UpdateStatus(content_ideas, run.idea_id, "failed")
               ELSE content_ideas
          /\ responses' = responses \cup {Respond500(run)}
    /\ runs' = RemoveAt(runs, r)
    /\ UNCHANGED <<submits, received, db_faults, daily_insights, digests>>

\* ---------------------------------------------------------- specification
Next ==
    \/ \E title \in Titles : SubmitStart(title)
    \/ \E s \in 1..Len(submits), outcome \in AuthOutcomes : SubmitAuth(s, outcome)
    \/ \E s \in 1..Len(submits), inserted \in BOOLEAN, started \in BOOLEAN :
          SubmitInsert(s, inserted, started)
    \/ \E id \in TriggerIds : Trigger(id)
    \/ \E r \in 1..Len(runs), written \in BOOLEAN : AnalyzeStart(r, written)
    \/ \E r \in 1..Len(runs), out \in SearchOutcomes : AnalyzeSearch(r, out)
    \/ \E r \in 1..Len(runs), out \in CompletionOutcomes : AnalyzeCompletion(r, out)
    \/ \E r \in 1..Len(runs), written \in BOOLEAN : AnalyzeWrite(r, written)
    \/ \E r \in 1..Len(runs), written \in BOOLEAN : AnalyzeCatch(r, written)

\* the persistence layer applies every write
Spec == Init /\ [][Next]_vars

\* ------------------------------------------------- src/pages/AuthPage.tsx
\* the values the status dropdown can send
ProjectStatuses == {"New", "In Review", "In Progress", "Complete", "On Hold"}

\* StatusDropdown.handleStatusChange:
\* await supabase.from('content_ideas').update({project_status: newStatus})
\*                .eq('id', ideaId); on error the dropdown shows the old value
handleStatusChange(ideaId, newStatus, written) ==
    /\ ideaId \in 1..Len(content_ideas)
    /\ written \in WriteOutcomes
    /\ content_ideas' =
         IF written
         THEN [content_ideas EXCEPT ![ideaId].project_status = newStatus]
         ELSE content_ideas
    /\ UNCHANGED <<submits, runs, responses, received, db_faults, daily_insights, digests>>

\* submissions, the runs they dispatch, and the dashboard
NextTeam ==
    \/ \E title \in Titles : SubmitStart(title)
    \/ \E s \in 1..Len(submits), outcome \in AuthOutcomes : SubmitAuth(s, outcome)
    \/ \E s \in 1..Len(submits), inserted \in BOOLEAN, started \in BOOLEAN :
          SubmitInsert(s, inserted, started)
    \/ \E r \in 1..Len(runs), written \in BOOLEAN : AnalyzeStart(r, written)
    \/ \E r \in 1..Len(runs), out \in SearchOutcomes : AnalyzeSearch(r, out)
    \/ \E r \in 1..Len(runs), out \in CompletionOutcomes : AnalyzeCompletion(r, out)
    \/ \E r \in 1..Len(runs), written \in BOOLEAN : AnalyzeWrite(r, written)
    \/ \E r \in 1..Len(runs), written \in BOOLEAN : AnalyzeCatch(r, written)
    \/ \E ideaId \in 1..Len(content_ideas), newStatus \in ProjectStatuses,
          written \in BOOLEAN : handleStatusChange(ideaId, newStatus, written)

\* the two functions and the team members' dashboard
SpecTeam == Init /\ [][NextTeam]_vars

\* every await of analyze-content eventually returns, with success or error
Fairness ==
    /\ WF_vars(\E r \in 1..Len(runs), written \in BOOLEAN : AnalyzeStart(r, written))
    /\ WF_vars(\E r \in 1..Len(runs), out \in SearchOutcomes : AnalyzeSearch(r, out))
    /\ WF_vars(\E r \in 1..Len(runs), out \in CompletionOutcomes :
                  AnalyzeCompletion(r, out))
    /\ WF_vars(\E r \in 1..Len(runs), written \in BOOLEAN : AnalyzeWrite(r, written))
    /\ WF_vars(\E r \in 1..Len(runs), written \in BOOLEAN : AnalyzeCatch(r, written))

\* the persistence layer may refuse any write ({data: null, error})
InitFaulty ==
    /\ content_ideas = <<>>
    /\ submits = <<>>
    /\ runs = <<>>
    /\ responses = {}
    /\ received = [submits |-> 0, runs |-> 0]
    /\ db_faults = TRUE
    /\ daily_insights = <<>>
    /\ digests = <<>>

SpecFaulty == InitFaulty /\ [][Next]_vars /\ Fairness

\* --------------------------------------------- score extraction by itself
\* the tokens of the texts: the marker's parts, near misses of them (a strong
\* tag without the style, a /10 ending), digits and other markup
ScoreTokens == {BODY, MARK_OPEN, "<strong>", "7", "3", MARK_CLOSE, "/10</strong>"}
Texts == UNION {[1..n -> ScoreTokens] : n \in 0..MaxTextLen}

\* a run on row 1 that holds the text t in analysisHtml and is about to match
\* it (between the replace calls and scoreMatch)
ScoringRun(t) ==
    [NewRun(Num(1)) EXCEPT !.pc = "score", !.supabaseAdmin = TRUE,
                           !.braveResponse = "ok", !.openAIResponse = "ok",
                           !.analysisHtml = Str(t),
                           !.searchCalls = 1, !.completionCalls = 1]

\* row 1 was submitted and two requests for it have reached the same text
InitScore ==
    \E txt \in Texts :
       LET sub == [title |-> Str(<<"idea">>), user |-> Str(<<"user">>)]
       IN /\ content_ideas = <<NewIdea(sub)>>
          /\ submits = <<>>
          /\ runs = <<ScoringRun(txt), ScoringRun(txt)>>
          /\ responses = {Response("submit-idea", [title |-> sub.title], 201,
                                    [id |-> 1, row |-> NewIdea(sub)])}
          /\ received = [submits |-> 1, runs |-> 2]
          /\ db_faults = FALSE
          /\ daily_insights = <<>>
          /\ digests = <<>>

\* const scoreMatch = analysisHtml.match(...); const score = ...; the terminal
\* update is sent
ExtractScore(r) ==
    /\ runs[r].pc = "score"
    /\ runs' = [runs EXCEPT ![r].score = score(runs[r].analysisHtml.v),
                            ![r].pc = "write"]
    /\ UNCHANGED <<content_ideas, submits, responses, received, db_faults, daily_insights, digests>>

NextScore ==
    \/ \E r \in 1..Len(runs) : ExtractScore(r)
    \/ \E r \in 1..Len(runs), written \in BOOLEAN : AnalyzeWrite(r, written)

SpecScore == InitScore /\ [][NextScore]_vars

\* ------------------------------------------------- two ideas side by side
\* two submissions have been accepted and the run of each has been dispatched
InitPair ==
    LET sub == [title |-> Str(<<"idea">>), user |-> Str(<<"user">>)]
    IN /\ content_ideas = <<NewIdea(sub), NewIdea(sub)>>
       /\ submits = <<>>
       /\ runs = <<NewRun(Num(1)), NewRun(Num(2))>>
       /\ responses = {Response("submit-idea", [title |-> sub.title], 201,
                                 [id |-> i, row |-> NewIdea(sub)]) : i \in {1, 2}}
       /\ received = [submits |-> 2, runs |-> 2]
       /\ db_faults = FALSE
       /\ daily_insights = <<>>
       /\ digests = <<>>

NextPair ==
    \/ \E r \in 1..Len(runs), written \in BOOLEAN : AnalyzeStart(r, written)
    \/ \E r \in 1..Len(runs), out \in SearchOutcomes : AnalyzeSearch(r, out)
    \/ \E r \in 1..Len(runs), out \in CompletionOutcomes : AnalyzeCompletion(r, out)
    \/ \E r \in 1..Len(runs), written \in BOOLEAN : AnalyzeWrite(r, written)
    \/ \E r \in 1..Len(runs), written \in BOOLEAN : AnalyzeCatch(r, written)

SpecPair == InitPair /\ [][NextPair]_vars

\* ------------------------------------------- prompt rendering by itself
\* the tokens a submitted title is made of; submit-idea accepts no empty title
TitleTokens == {"a", DOLLAR, AMPERSAND, GRAVE, APOSTROPHE, PLACEHOLDER}
PromptTitles == UNION {[1..n -> TitleTokens] : n \in 1..MaxTitleLen}

\* one idea with any title has been accepted and its run dispatched
InitPrompt ==
    \E t \in PromptTitles :
       LET sub == [title |-> Str(t), user |-> Str(<<"user">>)]
       IN /\ content_ideas = <<NewIdea(sub)>>
          /\ submits = <<>>
          /\ runs = <<NewRun(Num(1))>>
          /\ responses = {Response("submit-idea", [title |-> sub.title], 201,
                                    [id |-> 1, row |-> NewIdea(sub)])}
          /\ received = [submits |-> 1, runs |-> 1]
          /\ db_faults = FALSE
          /\ daily_insights = <<>>
          /\ digests = <<>>

NextPrompt ==
    \/ \E r \in 1..Len(runs), written \in BOOLEAN : AnalyzeStart(r, written)
    \/ \E r \in 1..Len(runs), out \in SearchOutcomes : AnalyzeSearch(r, out)
    \/ \E r \in 1..Len(runs), out \in CompletionOutcomes : AnalyzeCompletion(r, out)
    \/ \E r \in 1..Len(runs), written \in BOOLEAN : AnalyzeWrite(r, written)
    \/ \E r \in 1..Len(runs), written \in BOOLEAN : AnalyzeCatch(r, written)

SpecPrompt == InitPrompt /\ [][NextPrompt]_vars

\* --------------------------------------- generate-daily-insights/index.ts
\* the texts of this function are sequences of characters
DIGEST_FENCE == <<GRAVE, GRAVE, GRAVE, "h", "t", "m", "l">>
CLOSING_FENCE == <<GRAVE, GRAVE, GRAVE>>
LIST == <<"<", "u", "l", ">", "a", "<", "/", "u", "l", ">">>
Whitespace == {" ", NL}

\* String.prototype.startsWith
startsWith(t, prefix) ==
    Len(t) >= Len(prefix) /\ SubSeq(t, 1, Len(prefix)) = prefix

\* String.prototype.trim
RECURSIVE trimStart(_)
trimStart(t) ==
    IF t # <<>> /\ Head(t) \in Whitespace THEN trimStart(Tail(t)) ELSE t

RECURSIVE trimEnd(_)
trimEnd(t) ==
    IF t # <<>> /\ t[Len(t)] \in Whitespace
    THEN trimEnd(SubSeq(t, 1, Len(t) - 1))
    ELSE t

trim(t) == trimEnd(trimStart(t))

\* String.prototype.substring(start, end): both arguments are clamped to
\* 0..length and swapped when start > end
substring(t, start, end) ==
    LET clamp(n) == IF n < 0 THEN 0 ELSE Min(n, Len(t))
        lo == Min(clamp(start), clamp(end))
        hi == IF clamp(start) < clamp(end) THEN clamp(end) ELSE clamp(start)
    IN SubSeq(t, lo + 1, hi)

FENCE_PREFIX_LEN == 7
FENCE_SUFFIX_LEN == 3

\* let insightsHtml = chatCompletion.choices[0].message.content.trim();
\* if (insightsHtml.startsWith(fence))
\*   insightsHtml = insightsHtml.substring(7, insightsHtml.length - 3).trim()
insightsHtml(content) ==
    LET t == trim(content)
    IN IF startsWith(t, DIGEST_FENCE)
       THEN trim(substring(t, FENCE_PREFIX_LEN, Len(t) - FENCE_SUFFIX_LEN))
       ELSE t

\* braveData.web?.results.map(...) || []: every result the provider sent
insightsSearchContext(results) == results

\* choices[0].message.content of a successful completion response: null,
\* empty, a bare list, a list inside a fence with and without its closing
\* fence, a fence around one character, a list inside whitespace
DigestContents ==
    { Null,
      Str(<<>>),
      Str(LIST),
      Str(DIGEST_FENCE \o <<NL>> \o LIST \o <<NL>> \o CLOSING_FENCE),
      Str(DIGEST_FENCE \o <<NL>> \o LIST),
      Str(DIGEST_FENCE \o <<"a">>),
      Str(<<" ">> \o LIST \o <<NL>>) }

DigestCompletionOutcomes ==
    {[fetch |-> "rejected"],
     [fetch |-> "response", ok |-> FALSE],
     [fetch |-> "response", ok |-> TRUE, body |-> "unparseable"],
     [fetch |-> "response", ok |-> TRUE, body |-> "no_choices"]}
    \cup {[fetch |-> "response", ok |-> TRUE, body |-> "choices", content |-> c] :
             c \in DigestContents}

\* a request as it reaches the handler; the client is created and the search
\* request is sent before the first await
NewDigest ==
    [pc |-> "search", searchContext |-> <<>>, insightsHtml |-> Null,
     searchCalls |-> 1, completionCalls |-> 0, error |-> ""]

\* the handler has returned
Returned(dg, msg) ==
    [NewDigest EXCEPT !.pc = "done", !.error = msg,
                      !.searchCalls = dg.searchCalls,
                      !.completionCalls = dg.completionCalls]

DigestResponse(d, status, body) ==
    Response("generate-daily-insights", [digest |-> d], status, body)

\* the handler d moves to dg, or, when dg has returned with an error, the
\* catch block answers 500 {error: error.message}
DigestStep(d, dg) ==
    /\ digests' = [digests EXCEPT ![d] = dg]
    /\ IF dg.pc = "done"
       THEN responses' = responses \cup {DigestResponse(d, 500, [error |-> dg.error])}
       ELSE UNCHANGED responses

\* serve(): a request (a cron job or a visitor) arrives
DigestStart ==
    /\ Len(digests) < MaxDigests
    /\ digests' = Append(digests, NewDigest)
    /\ UNCHANGED <<content_ideas, submits, runs, responses, received, db_faults,
                   daily_insights>>

DigestSearchReturned_StatusUnchecked(dg, out) ==
    IF out.fetch = "rejected"
    THEN Returned(dg, "fetch failed: search")
    ELSE CASE out.body.shape = "unparseable" -> Returned(dg, "SyntaxError: search")
           [] out.body.shape = "web_no_results" -> Returned(dg, "TypeError: search")
           [] out.body.shape = "results" ->
                [dg EXCEPT !.searchContext = insightsSearchContext(out.body.results),
                           !.completionCalls = @ + 1,
                           !.pc = "completion"]
           [] OTHER -> [dg EXCEPT !.completionCalls = @ + 1, !.pc = "completion"]

\* await fetch(search): a rejection throws; if (!braveResponse.ok) throw;
\* await braveResponse.json() throws on a body that is no JSON;
\* braveData.web?.results.map(...) || [] throws on a web object without
\* results and gives [] without a web object; then the prompt is built and
\* the completion request is sent
DigestSearchReturned(dg, out) ==
    IF out.fetch = "rejected"
    THEN Returned(dg, "fetch failed: search")
    ELSE IF ~out.ok
    THEN Returned(dg, "Brave API request failed")
    ELSE CASE out.body.shape = "unparseable" -> Returned(dg, "SyntaxError: search")
           [] out.body.shape = "web_no_results" -> Returned(dg, "TypeError: search")
           [] out.body.shape = "results" ->
                [dg EXCEPT !.searchContext = insightsSearchContext(out.body.results),
                           !.completionCalls = @ + 1,
                           !.pc = "completion"]
           [] OTHER -> [dg EXCEPT !.completionCalls = @ + 1, !.pc = "completion"]

DigestSearch(d, out) ==
    /\ digests[d].pc = "search"
    /\ DigestStep(d, DigestSearchReturned(digests[d], out))
    /\ UNCHANGED <<content_ideas, submits, runs, received, db_faults, daily_insights>>

\* await fetch(completion): a rejection throws; if (!openAIResponse.ok) throw;
\* await openAIResponse.json() throws on a body that is no JSON;
\* choices[0].message.content.trim() throws without a first choice and on
\* null content; the text is cleaned and the insert is sent
DigestCompletionReturned(dg, out) ==
    IF out.fetch = "rejected"
    THEN Returned(dg, "fetch failed: completion")
    ELSE IF ~out.ok
    THEN Returned(dg, "OpenAI API request failed")
    ELSE IF out.body = "unparseable"
    THEN Returned(dg, "SyntaxError: completion")
    ELSE IF out.body = "no_choices" \/ out.content = Null
    THEN Returned(dg, "TypeError: completion")
    ELSE [dg EXCEPT !.insightsHtml = Str(insightsHtml(out.content.v)),
                    !.searchContext = <<>>,
                    !.pc = "insert"]

DigestCompletion(d, out) ==
    /\ digests[d].pc = "completion"
    /\ DigestStep(d, DigestCompletionReturned(digests[d], out))
    /\ UNCHANGED <<content_ideas, submits, runs, received, db_faults, daily_insights>>

\* const {error: insertError} = await supabaseAdmin.from('daily_insights')
\*   .insert({content: insightsHtml}); if (insertError) throw insertError;
\* return 200 {success: true, insights: insightsHtml}
DigestInsert(d, written) ==
    /\ digests[d].pc = "insert"
    /\ written \in WriteOutcomes
    /\ IF written
       THEN /\ daily_insights' =
                 Append(daily_insights, [content |-> digests[d].insightsHtml])
            /\ digests' = [digests EXCEPT ![d] = Returned(digests[d], "")]
            /\ responses' = responses \cup
                 {DigestResponse(d, 200, [success |-> TRUE,
                                          insights |-> digests[d].insightsHtml])}
       ELSE /\ DigestStep(d, Returned(digests[d], "insertError"))
            /\ UNCHANGED daily_insights
    /\ UNCHANGED <<content_ideas, submits, runs, received, db_faults>>

\* one idea has been accepted and its run dispatched; storage may refuse a
\* write; no digest has been requested yet
InitDigest ==
    LET sub == [title |-> Str(<<"idea">>), user |-> Str(<<"user">>)]
    IN /\ content_ideas = <<NewIdea(sub)>>
       /\ submits = <<>>
       /\ runs = <<NewRun(Num(1))>>
       /\ responses = {Response("submit-idea", [title |-> sub.title], 201,
                                 [id |-> 1, row |-> NewIdea(sub)])}
       /\ received = [submits |-> 1, runs |-> 1]
       /\ db_faults = TRUE
       /\ daily_insights = <<>>
       /\ digests = <<>>

\* the digest function next to one run of analyze-content
NextDigest ==
    \/ DigestStart
    \/ \E d \in 1..Len(digests), out \in SearchOutcomes : DigestSearch(d, out)
    \/ \E d \in 1..Len(digests), out \in DigestCompletionOutcomes :
          DigestCompletion(d, out)
    \/ \E d \in 1..Len(digests), written \in BOOLEAN : DigestInsert(d, written)
    \/ \E r \in 1..Len(runs), written \in BOOLEAN : AnalyzeStart(r, written)
    \/ \E r \in 1..Len(runs), out \in SearchOutcomes : AnalyzeSearch(r, out)
    \/ \E r \in 1..Len(runs), out \in CompletionOutcomes : AnalyzeCompletion(r, out)
    \/ \E r \in 1..Len(runs), written \in BOOLEAN : AnalyzeWrite(r, written)
    \/ \E r \in 1..Len(runs), written \in BOOLEAN : AnalyzeCatch(r, written)

SpecDigest == InitDigest /\ [][NextDigest]_vars

\* ------------------------------------------------------------ properties
Ids == 1..Len(content_ideas)
RunIds == 1..Len(runs)
Terminal(status) == status \in {"completed", "failed"}

\* the row a run works on, after the step
RowAfter(run) == content_ideas'[run.idea_id.v]

\* C1: analysis_status only moves forward: once a row is completed or failed,
\* no later step of any analyze-content invocation changes its status.
C1_TerminalAbsorbing ==
    [][\A i \in Ids :
          Terminal(content_ideas[i].analysis_status)
          => content_ideas'[i].analysis_status = content_ideas[i].analysis_status]_vars

\* C2: a run whose search response had a non-success status is fatal: it has
\* issued no completion call, it is in its catch block, and when it returns
\* its row is failed.
C2_SearchStatusFatal ==
    /\ [](\A r \in RunIds :
            runs[r].braveResponse = "not_ok"
            => runs[r].pc = "catch" /\ runs[r].completionCalls = 0)
    /\ [][\A r \in RunIds, w \in BOOLEAN :
            runs[r].braveResponse = "not_ok" /\ (AnalyzeCatch(r, w) \/ AnalyzeWrite(r, w))
            => RowAfter(runs[r]).analysis_status = "failed"]_vars

\* C3: a run whose search fetch rejected has issued no completion call and is
\* in its catch block; when it returns, its row is failed and the response
\* is a 500 with the error.
C3_SearchRejected ==
    /\ [](\A r \in RunIds :
            runs[r].braveResponse = "rejected"
            => /\ runs[r].pc = "catch"
               /\ runs[r].completionCalls = 0
               /\ RowExists(runs[r].idea_id))
    /\ [][\A r \in RunIds, w \in BOOLEAN :
            runs[r].braveResponse = "rejected" /\ AnalyzeCatch(r, w)
            => /\ RowAfter(runs[r]).analysis_status = "failed"
               /\ \E resp \in responses' :
                     /\ resp.fn = "analyze-content"
                     /\ resp.request.idea_id = runs[r].idea_id
                     /\ resp.status = 500
                     /\ resp.body = [error |-> runs[r].error]]_vars

C3_Witness ==
    \E resp \in responses :
       /\ resp.fn = "analyze-content"
       /\ resp.status = 500
       /\ resp.body = [error |-> "fetch failed: search"]
       /\ RowExists(resp.request.idea_id)
       /\ content_ideas[resp.request.idea_id.v].analysis_status = "failed"

\* C4: a run whose completion response had a non-success status is in its
\* catch block; when it returns, its row is failed, score and analysis of
\* every row are as before the step, and the response is a 500; and the only
\* step that changes a row's score or analysis is the terminal write of a run
\* whose completion response was a success.
C4_CompletionStatusFatal ==
    /\ [](\A r \in RunIds :
            runs[r].openAIResponse = "not_ok"
            => runs[r].pc = "catch" /\ RowExists(runs[r].idea_id))
    /\ [][\A r \in RunIds, w \in BOOLEAN :
            runs[r].openAIResponse = "not_ok" /\ AnalyzeCatch(r, w)
            => /\ RowAfter(runs[r]).analysis_status = "failed"
               /\ \A i \in Ids :
                     /\ content_ideas'[i].score = content_ideas[i].score
                     /\ content_ideas'[i].analysis = content_ideas[i].analysis
               /\ \E resp \in responses' :
                     /\ resp.fn = "analyze-content"
                     /\ resp.request.idea_id = runs[r].idea_id
                     /\ resp.status = 500
                     /\ resp.body = [error |-> runs[r].error]]_vars
    /\ [][\A i \in Ids :
            (\/ content_ideas'[i].score # content_ideas[i].score
             \/ content_ideas'[i].analysis # content_ideas[i].analysis)
            => \E r \in RunIds :
                  /\ runs[r].pc = "write"
                  /\ runs[r].openAIResponse = "ok"
                  /\ runs[r].idea_id = Num(i)
                  /\ runs' = RemoveAt(runs, r)]_vars

C4_Witness ==
    \E resp \in responses :
       /\ resp.fn = "analyze-content"
       /\ resp.status = 500
       /\ resp.body = [error |-> "OpenAI API request failed with status"]
       /\ RowExists(resp.request.idea_id)
       /\ content_ideas[resp.request.idea_id.v].analysis_status = "failed"
       /\ content_ideas[resp.request.idea_id.v].score = Null
       /\ content_ideas[resp.request.idea_id.v].analysis = Null

\* C5: every completed row has a non-null analysis.
C5_CompletedHasAnalysis ==
    \A i \in Ids :
       content_ideas[i].analysis_status = "completed"
       => ~IsNull(content_ideas[i].analysis)

\* the completion returned null or empty content and the row is completed
C5_Witness ==
    \E i \in Ids :
       /\ content_ideas[i].analysis_status = "completed"
       /\ content_ideas[i].analysis = Str(ErrorReport)

\* C6: every row's score is null or an integer in 0..100.
C6_ScoreInRange ==
    \A i \in Ids :
       \/ content_ideas[i].score = Null
       \/ /\ content_ideas[i].score.kind = "num"
          /\ content_ideas[i].score.v \in 0..100

\* C7: every failed row has score = null and analysis = null.
C7_FailedHasNoResult ==
    \A i \in Ids :
       content_ideas[i].analysis_status = "failed"
       => content_ideas[i].score = Null /\ content_ideas[i].analysis = Null

SubmitResponses == {resp \in responses : resp.fn = "submit-idea"}

\* C8: a submission whose title is missing or empty gets a 400 {error} and
\* nothing else: handling it persists no row and dispatches no run, it never
\* reaches the authentication or insert step, and no row carries such a title.
C8_EmptyTitleRejected ==
    /\ [](/\ \A resp \in SubmitResponses :
               Falsy(resp.request.title)
               => resp.status = 400 /\ DOMAIN resp.body = {"error"}
          /\ \A s \in 1..Len(submits) : ~Falsy(submits[s].title)
          /\ \A i \in Ids : ~Falsy(content_ideas[i].title))
    /\ [][\A title \in Titles :
            Falsy(title) /\ SubmitStart(title)
            => /\ UNCHANGED <<content_ideas, runs, submits>>
               /\ \E resp \in responses' :
                     /\ resp.fn = "submit-idea"
                     /\ resp.request.title = title
                     /\ resp.status = 400]_vars

\* an empty title has been answered with 400 and there is no row and no run
C8_Witness ==
    /\ \E resp \in SubmitResponses :
          /\ resp.request.title = Str(<<>>)
          /\ resp.status = 400
          /\ resp.body = [error |-> "Missing required field: title"]
    /\ content_ideas = <<>>
    /\ runs = <<>>

\* C9: a submission with no authenticated principal (getUser gives an error
\* or no user) gets a 400 {error}; the step persists no row and dispatches no
\* run, the handler ends there, and every row has an owner.
C9_UnauthenticatedRejected ==
    /\ [](/\ \A s \in 1..Len(submits) :
               submits[s].pc = "insert" => ~IsNull(submits[s].user)
          /\ \A i \in Ids : ~IsNull(content_ideas[i].user_id))
    /\ [][\A s \in 1..Len(submits), outcome \in AuthOutcomes :
            (outcome.error \/ IsNull(outcome.user)) /\ SubmitAuth(s, outcome)
            => /\ UNCHANGED <<content_ideas, runs>>
               /\ submits' = RemoveAt(submits, s)
               /\ \E resp \in responses' :
                     /\ resp.fn = "submit-idea"
                     /\ resp.request.title = submits[s].title
                     /\ resp.status = 400
                     /\ DOMAIN resp.body = {"error"}]_vars

C9_Witness ==
    /\ \E resp \in SubmitResponses :
          resp.status = 400 /\ resp.body = [error |-> "User not found"]
    /\ content_ideas = <<>>
    /\ runs = <<>>
    /\ received.submits = MaxSubmits
    /\ submits = <<>>

\* C10: the row a successful submission persists has analysis_status =
\* analyzing and project_status = New, no row is ever pending, and the same
\* step returns the 201 response carrying that row while the run it has
\* dispatched has not taken a step and the row is not yet completed or failed.
C10_CreatedAnalyzingAndReturned ==
    /\ [](\A i \in Ids : content_ideas[i].analysis_status # "pending")
    /\ [][\A s \in 1..Len(submits), started \in BOOLEAN :
            SubmitInsert(s, TRUE, started)
            => LET id == Len(content_ideas) + 1
               IN /\ Len(content_ideas') = id
                  /\ content_ideas'[id].analysis_status = "analyzing"
                  /\ content_ideas'[id].project_status = "New"
                  /\ Response("submit-idea", [title |-> submits[s].title], 201,
                              [id |-> id, row |-> content_ideas'[id]]) \in responses'
                  /\ started => /\ runs' = Append(runs, NewRun(Num(id)))
                                /\ runs'[Len(runs')].pc = "start"]_vars

\* the 201 has been returned while the dispatched run has not started
C10_Witness ==
    /\ \E resp \in SubmitResponses :
          /\ resp.status = 201
          /\ content_ideas[resp.body.id].analysis_status = "analyzing"
          /\ content_ideas[resp.body.id].project_status = "New"
          /\ \E r \in RunIds :
                runs[r].idea_id = Num(resp.body.id) /\ runs[r].pc = "start"

\* C11: when the dispatch does not start after the insert, the same step still
\* returns 201 with the created row, the row is analyzing and no run exists
\* for it; and while no run for a row is in flight, no step other than a new
\* request to analyze-content changes the row's analysis_status, score or
\* analysis or brings a run for it into being.
C11_DispatchFailureKeepsSuccess ==
    /\ [][\A s \in 1..Len(submits) :
            SubmitInsert(s, TRUE, FALSE)
            => LET id == Len(content_ideas) + 1
               IN /\ Len(content_ideas') = id
                  /\ content_ideas'[id].analysis_status = "analyzing"
                  /\ Response("submit-idea", [title |-> submits[s].title], 201,
                              [id |-> id, row |-> content_ideas'[id]]) \in responses'
                  /\ UNCHANGED <<runs, received>>]_vars
    /\ [][\A i \in Ids :
            /\ ~\E r \in RunIds : runs[r].idea_id = Num(i)
            /\ ~\E id \in TriggerIds : Trigger(id)
            => /\ content_ideas'[i].analysis_status = content_ideas[i].analysis_status
               /\ content_ideas'[i].score = content_ideas[i].score
               /\ content_ideas'[i].analysis = content_ideas[i].analysis
               /\ ~\E r \in 1..Len(runs') : runs'[r].idea_id = Num(i)]_vars

\* the 201 has been returned, the row is analyzing, and analyze-content has
\* never received a request
C11_Witness ==
    /\ \E resp \in SubmitResponses :
          /\ resp.status = 201
          /\ content_ideas[resp.body.id].analysis_status = "analyzing"
    /\ received.runs = 0
    /\ runs = <<>>
    /\ submits = <<>>

\* C13: a failing terminal write is propagated: the step in which a run's
\* terminal write returns leaves the run's row completed, and a run answers
\* {success: true, idea_id} only if its terminal write was applied.
C13_WriteFailurePropagated ==
    /\ [][\A r \in RunIds, w \in BOOLEAN :
            AnalyzeWrite(r, w) /\ Respond200(runs[r]) \in responses'
            => RowAfter(runs[r]).analysis_status = "completed"]_vars
    /\ [][\A r \in RunIds :
            AnalyzeWrite(r, FALSE)
            => \E resp \in responses' \ responses :
                  resp.request.idea_id = runs[r].idea_id /\ resp.status = 500]_vars

\* C14: when the recovery write of a run in its catch block is refused, the
\* same step answers 500 with the error the run failed with, the handler
\* ends, and no row changes; a row that only this request has worked on is
\* still analyzing.
C14_RecoveryFailureKeepsError ==
    [][\A r \in RunIds :
          AnalyzeCatch(r, FALSE)
          => /\ Respond500(runs[r]) \in responses'
             /\ \A resp \in responses' \ responses : resp = Respond500(runs[r])
             /\ runs[r].error \in {"ideaError", "fetch failed: search",
                                   "SyntaxError: search", "TypeError: search",
                                   "fetch failed: completion",
                                   "OpenAI API request failed with status",
                                   "SyntaxError: completion", "TypeError: completion"}
             /\ runs' = RemoveAt(runs, r)
             /\ content_ideas' = content_ideas
             /\ (received.runs = 1 /\ RowExists(runs[r].idea_id)
                   => RowAfter(runs[r]).analysis_status = "analyzing")]_vars

\* a run whose completion call was rejected has answered 500 with that error,
\* its recovery write was refused, and its row is still analyzing
C14_Witness ==
    /\ db_faults
    /\ runs = <<>>
    /\ received.runs = 1
    /\ \E resp \in responses :
          /\ resp.fn = "analyze-content"
          /\ resp.status = 500
          /\ resp.body = [error |-> "fetch failed: completion"]
          /\ RowExists(resp.request.idea_id)
          /\ content_ideas[resp.request.idea_id.v].analysis_status = "analyzing"

\* C12: every run in flight eventually returns (each of its calls returns,
\* with success or with an error), and a run on an existing row leaves the
\* row completed or failed when it returns.  The one case set apart is the
\* refused recovery write of the catch block, which leaves the row as it is.
C12_RunReachesTerminal ==
    /\ [][\A r \in RunIds, w \in BOOLEAN :
            (AnalyzeWrite(r, w) \/ AnalyzeCatch(r, TRUE)) /\ RowExists(runs[r].idea_id)
            => Terminal(RowAfter(runs[r]).analysis_status)]_vars
    /\ \A n \in 1..(MaxRuns + 1) : (Len(runs) >= n) ~> (Len(runs) < n)

\* C15: a run whose idea_id matched no stored row has issued no search call
\* and no completion call and is in its catch block; when it returns it
\* answers 500 with the error, no request is sent in its place, and no step
\* of the run has created or changed a row.
C15_UnknownIdeaFails ==
    /\ [](\A r \in RunIds :
            runs[r].error = "ideaError"
            => /\ runs[r].pc = "catch"
               /\ runs[r].searchCalls = 0
               /\ runs[r].completionCalls = 0)
    /\ [][\A r \in RunIds, w \in BOOLEAN :
            /\ ~Falsy(runs[r].idea_id)
            /\ ~RowExists(runs[r].idea_id)
            /\ AnalyzeStart(r, w)
            => /\ runs'[r].error = "ideaError"
               /\ content_ideas' = content_ideas]_vars
    /\ [][\A r \in RunIds, w \in BOOLEAN :
            runs[r].error = "ideaError" /\ AnalyzeCatch(r, w)
            => /\ Respond500(runs[r]) \in responses'
               /\ runs' = RemoveAt(runs, r)
               /\ received' = received
               /\ content_ideas' = content_ideas]_vars

\* C16: no step of an analyze-content run changes a row's project_status, and
\* a project_status update changes nothing but the project_status of its row;
\* each write that is applied shows in the row after its step, so under any
\* interleaving of the two on one row neither write is lost.
C16_StatusAxesIndependent ==
    /\ [][\A r \in RunIds, w \in BOOLEAN :
            AnalyzeStart(r, w) \/ AnalyzeWrite(r, w) \/ AnalyzeCatch(r, w)
            => \A i \in Ids :
                  content_ideas'[i].project_status = content_ideas[i].project_status]_vars
    /\ [][\A r \in RunIds :
            AnalyzeWrite(r, TRUE)
            => /\ RowAfter(runs[r]).analysis_status = "completed"
               /\ RowAfter(runs[r]).score = runs[r].score
               /\ RowAfter(runs[r]).analysis = runs[r].analysisHtml]_vars
    /\ [][\A i \in Ids, st \in ProjectStatuses :
            handleStatusChange(i, st, TRUE)
            => /\ content_ideas'[i] = [content_ideas[i] EXCEPT !.project_status = st]
               /\ \A j \in Ids \ {i} : content_ideas'[j] = content_ideas[j]]_vars

\* a team member moved the row to In Review while a run on it was at its
\* terminal write, or before; the row now carries both writes
C16_Witness ==
    /\ runs = <<>>
    /\ received.runs = 1
    /\ \E i \in Ids :
          /\ content_ideas[i].project_status = "In Review"
          /\ content_ideas[i].analysis_status = "completed"
          /\ content_ideas[i].score = Num(73)

\* C17: a run has issued at most one search call and at most one completion
\* call at every moment, up to its return; a step of a run that has a failed
\* call behind it issues no call, and a run in its catch block only returns.
C17_AtMostOneCallEach ==
    /\ [](\A r \in RunIds :
            /\ runs[r].searchCalls <= 1
            /\ runs[r].completionCalls <= 1
            /\ runs[r].pc \in {"search", "completion", "write"}
                  => runs[r].searchCalls = 1
            /\ runs[r].pc = "write" => runs[r].completionCalls = 1)
    /\ [][\A r \in RunIds :
            runs[r].pc = "catch"
            => \/ runs' = RemoveAt(runs, r)
               \/ /\ r <= Len(runs')
                  /\ runs'[r] = runs[r]
               \/ /\ r > 1
                  /\ Len(runs') = Len(runs) - 1
                  /\ runs'[r - 1] = runs[r]]_vars
    /\ [][\A r \in RunIds, out \in SearchOutcomes :
            AnalyzeSearch(r, out) /\ runs'[r].pc = "catch"
            => /\ runs'[r].searchCalls = runs[r].searchCalls
               /\ runs'[r].completionCalls = runs[r].completionCalls]_vars
    /\ [][\A r \in RunIds, out \in CompletionOutcomes :
            AnalyzeCompletion(r, out) /\ runs'[r].pc = "catch"
            => /\ runs'[r].searchCalls = runs[r].searchCalls
               /\ runs'[r].completionCalls = runs[r].completionCalls]_vars

\* a run whose completion call failed is in its catch block with one search
\* call and one completion call behind it
C17_Witness ==
    \E r \in RunIds :
       /\ runs[r].pc = "catch"
       /\ runs[r].openAIResponse = "rejected"
       /\ runs[r].searchCalls = 1
       /\ runs[r].completionCalls = 1

\* the marker of the report template in a text: opening tag with the fixed
\* style, digits, /100 and the closing tag; a marker is given by the
\* positions of its opening tag and of its last digit
Markers(t) ==
    {m \in (1..Len(t)) \X (1..Len(t)) :
        /\ m[1] < m[2]
        /\ m[2] < Len(t)
        /\ t[m[1]] = MARK_OPEN
        /\ \A k \in (m[1] + 1)..m[2] : t[k] \in Digits
        /\ t[m[2] + 1] = MARK_CLOSE}

\* the integer a decimal numeral denotes, digit by digit from position k
RECURSIVE Decimal(_, _)
Decimal(ds, k) ==
    IF k > Len(ds) THEN 0
    ELSE DigitVal(ds[k]) * 10 ^ (Len(ds) - k) + Decimal(ds, k + 1)

MarkerValues(t) == {Decimal(SubSeq(t, m[1] + 1, m[2]), 1) : m \in Markers(t)}

\* sc is the integer carried by a marker of t, or null when t has no marker
CarriesScore(t, sc) ==
    IF MarkerValues(t) = {} THEN sc = Null
    ELSE sc.kind = "num" /\ sc.v \in MarkerValues(t)

\* a successful completion response whose first choice has content c
Completed(c) ==
    [fetch |-> "response", ok |-> TRUE, body |-> "choices", content |-> c]

\* C18 as stated: after a successful search, a completion that returns text T
\* takes the run to its terminal write with analysis = T stripped of its code
\* fence and score = the integer of T's marker or null, and the write leaves
\* the row completed with that analysis and score.
C18_CompletedWithText ==
    /\ [][\A r \in RunIds, c \in Contents :
            /\ c.kind = "str"
            /\ runs[r].braveResponse = "ok"
            /\ AnalyzeCompletion(r, Completed(c))
            => /\ runs'[r].pc = "write"
               /\ runs'[r].analysisHtml = Str(StripFences(c.v))
               /\ CarriesScore(c.v, runs'[r].score)]_vars
    /\ [][\A r \in RunIds :
            AnalyzeWrite(r, TRUE)
            => /\ RowAfter(runs[r]).analysis_status = "completed"
               /\ RowAfter(runs[r]).analysis = runs[r].analysisHtml
               /\ RowAfter(runs[r]).score = runs[r].score]_vars

\* C18 amended: the same for a non-empty text T; when the completion returns
\* the empty text or no text, the analysis is the fixed fallback document
\* and the score is null, and the row is completed all the same.
C18_CompletedWithTextOrFallback ==
    /\ [][\A r \in RunIds, c \in Contents :
            /\ runs[r].braveResponse = "ok"
            /\ AnalyzeCompletion(r, Completed(c))
            => /\ runs'[r].pc = "write"
               /\ IF c.kind = "str" /\ c.v # <<>>
                  THEN /\ runs'[r].analysisHtml = Str(StripFences(c.v))
                       /\ CarriesScore(c.v, runs'[r].score)
                  ELSE /\ runs'[r].analysisHtml = Str(ErrorReport)
                       /\ runs'[r].score = Null]_vars
    /\ [][\A r \in RunIds :
            AnalyzeWrite(r, TRUE)
            => /\ RowAfter(runs[r]).analysis_status = "completed"
               /\ RowAfter(runs[r]).analysis = runs[r].analysisHtml
               /\ RowAfter(runs[r]).score = runs[r].score]_vars

\* a fenced report with the marker 73/100 has been stored without its fence
C18_Witness ==
    /\ runs = <<>>
    /\ \E i \in Ids :
          /\ content_ideas[i].analysis_status = "completed"
          /\ content_ideas[i].analysis = Str(<<MARK_OPEN, "7", "3", MARK_CLOSE>>)
          /\ content_ideas[i].score = Num(73)

C21_StepsInOrder ==
    /\ [](\A r \in RunIds :
            LET run == runs[r]
            IN /\ run.pc = "start"
                    => run.searchCalls = 0 /\ run.completionCalls = 0
               /\ run.pc = "search"
                    => /\ run.searchCalls = 1 /\ run.completionCalls = 0
                       /\ run.braveResponse = "none"
                       /\ run.openAIResponse = "none"
               /\ run.pc = "completion"
                    => /\ run.braveResponse \in {"ok", "not_ok"}
                       /\ run.searchCalls = 1 /\ run.completionCalls = 1
                       /\ run.openAIResponse = "none"
                       /\ run.analysisHtml = Null
               /\ run.pc = "write"
                    => /\ run.braveResponse \in {"ok", "not_ok"}
                       /\ run.openAIResponse = "ok"
                       /\ run.analysisHtml # Null)
    /\ [][\A r \in RunIds, w \in BOOLEAN :
            AnalyzeStart(r, w) /\ Len(runs') = Len(runs) /\ runs'[r].pc = "search"
            => RowAfter(runs[r]).analysis_status = "analyzing"]_vars
    /\ [][\A r \in RunIds :
            Len(runs') = Len(runs) /\ runs'[r] # runs[r]
            => <<runs[r].pc, runs'[r].pc>> \in
                  {<<"start", "search">>, <<"start", "catch">>,
                   <<"search", "completion">>, <<"search", "catch">>,
                   <<"completion", "write">>, <<"completion", "catch">>}]_vars
    /\ [][\A i \in Ids :
            /\ content_ideas'[i].analysis_status = "completed"
            /\ content_ideas'[i] # content_ideas[i]
            => \E r \in RunIds :
                  /\ runs[r].pc = "write"
                  /\ runs[r].idea_id = Num(i)
                  /\ runs' = RemoveAt(runs, r)]_vars

\* a run has gone through every step: its terminal write is out
C21_Witness ==
    \E r \in RunIds :
       /\ runs[r].pc = "write"
       /\ runs[r].searchCalls = 1
       /\ runs[r].completionCalls = 1
       /\ runs[r].braveResponse = "ok"
       /\ content_ideas[runs[r].idea_id.v].analysis_status = "analyzing"

\* what a run leaves in analysis_status, score and analysis of its row when
\* it is the only run: failed with nothing, or completed with the analysis
\* and score of one completion content
SoloResults ==
    {[analysis_status |-> "failed", score |-> Null, analysis |-> Null]}
    \cup {[analysis_status |-> "completed",
           score |-> score(analysisHtml(c)),
           analysis |-> Str(analysisHtml(c))] : c \in Contents}

\* C22: runs for distinct ideas do not interfere.  A step of a run changes
\* no row but its own and no local of another run; the row a run leaves
\* behind is computed from that run's own locals; and when both runs have
\* returned, each row holds a result its run produces when executed alone.
C22_DistinctIdeasIndependent ==
    /\ [][\A r \in RunIds, w \in BOOLEAN :
            AnalyzeStart(r, w) \/ AnalyzeWrite(r, w) \/ AnalyzeCatch(r, w)
            => /\ \A i \in Ids :
                     Num(i) # runs[r].idea_id => content_ideas'[i] = content_ideas[i]
               /\ \A q \in RunIds \ {r} :
                     \E q2 \in 1..Len(runs') : runs'[q2] = runs[q]]_vars
    /\ [][\A r \in RunIds :
            AnalyzeWrite(r, TRUE)
            => RowAfter(runs[r]) =
                  [content_ideas[runs[r].idea_id.v] EXCEPT
                      !.analysis_status = "completed",
                      !.score = runs[r].score,
                      !.analysis = runs[r].analysisHtml]]_vars
    /\ [][\A r \in RunIds :
            AnalyzeCatch(r, TRUE)
            => RowAfter(runs[r]) =
                  [content_ideas[runs[r].idea_id.v] EXCEPT
                      !.analysis_status = "failed",
                      !.score = Null,
                      !.analysis = Null]]_vars
    /\ [](runs = <<>>
            => \A i \in Ids :
                  [analysis_status |-> content_ideas[i].analysis_status,
                   score |-> content_ideas[i].score,
                   analysis |-> content_ideas[i].analysis] \in SoloResults)

\* both runs have returned: idea 1 is completed with its score, idea 2 failed
C22_Witness ==
    /\ runs = <<>>
    /\ Len(content_ideas) = 2
    /\ content_ideas[1].analysis_status = "completed"
    /\ content_ideas[1].score = Num(73)
    /\ content_ideas[2].analysis_status = "failed"
    /\ content_ideas[2].analysis = Null

\* the exceptions nobody throws on purpose: a body that is no JSON, a web
\* object without results, a completion without choices
Unexpected ==
    {"SyntaxError: search", "TypeError: search",
     "SyntaxError: completion", "TypeError: completion"}

\* C23: a search body that cannot be parsed or has a web object without
\* results, and a successful completion response that cannot be parsed or has
\* no choices, take the run to its catch block; such a run returns with its
\* row failed, score and analysis of every row as before the step, and a 500
\* response carrying the error.
C23_UnexpectedExceptionFails ==
    /\ [][\A r \in RunIds, out \in SearchOutcomes :
            /\ out.fetch = "response"
            /\ out.body.shape \in {"unparseable", "web_no_results"}
            /\ AnalyzeSearch(r, out)
            => runs'[r].pc = "catch" /\ runs'[r].error \in Unexpected]_vars
    /\ [][\A r \in RunIds, out \in CompletionOutcomes :
            /\ out.fetch = "response"
            /\ out.ok
            /\ out.body \in {"unparseable", "no_choices"}
            /\ AnalyzeCompletion(r, out)
            => runs'[r].pc = "catch" /\ runs'[r].error \in Unexpected]_vars
    /\ [](\A r \in RunIds :
            runs[r].error \in Unexpected
            => runs[r].pc = "catch" /\ RowExists(runs[r].idea_id))
    /\ [][\A r \in RunIds, w \in BOOLEAN :
            runs[r].error \in Unexpected /\ AnalyzeCatch(r, w)
            => /\ RowAfter(runs[r]).analysis_status = "failed"
               /\ \A i \in Ids :
                     /\ content_ideas'[i].score = content_ideas[i].score
                     /\ content_ideas'[i].analysis = content_ideas[i].analysis
               /\ Respond500(runs[r]) \in responses'
               /\ runs' = RemoveAt(runs, r)]_vars

\* a completion without choices has been answered with 500 and the row is
\* failed with no score and no analysis
C23_Witness ==
    /\ runs = <<>>
    /\ \E resp \in responses :
          /\ resp.fn = "analyze-content"
          /\ resp.status = 500
          /\ resp.body = [error |-> "TypeError: completion"]
          /\ content_ideas[resp.request.idea_id.v].analysis_status = "failed"
          /\ content_ideas[resp.request.idea_id.v].score = Null
          /\ content_ideas[resp.request.idea_id.v].analysis = Null

\* C24: a step that changes a row's score or analysis leaves the row
\* completed; a row is inserted with neither; so while analyze-content has
\* received at most one request, every analyzing row has score = null and
\* analysis = null.
C24_ResultOnlyWithCompleted ==
    /\ [][\A i \in Ids :
            \/ content_ideas'[i].score # content_ideas[i].score
            \/ content_ideas'[i].analysis # content_ideas[i].analysis
            => content_ideas'[i].analysis_status = "completed"]_vars
    /\ [][\A i \in 1..Len(content_ideas') :
            i > Len(content_ideas)
            => content_ideas'[i].score = Null /\ content_ideas'[i].analysis = Null]_vars
    /\ [](received.runs <= 1
            => \A i \in Ids :
                  content_ideas[i].analysis_status = "analyzing"
                  => content_ideas[i].score = Null /\ content_ideas[i].analysis = Null)

\* the only run has its score and analysis in hand and its terminal write is
\* out; the row is analyzing and holds neither
C24_Witness ==
    /\ received.runs = 1
    /\ \E r \in RunIds :
          /\ runs[r].pc = "write"
          /\ runs[r].score = Num(73)
          /\ content_ideas[runs[r].idea_id.v].analysis_status = "analyzing"
          /\ content_ideas[runs[r].idea_id.v].score = Null
          /\ content_ideas[runs[r].idea_id.v].analysis = Null

\* C29: a successful completion response whose first choice has null or empty
\* content takes the run to its terminal write with the placeholder document
\* as analysis and no score; the write leaves the row completed with that
\* analysis and score = null, and the answer is {success: true, idea_id}.
C29_EmptyContentCompletes ==
    /\ [][\A r \in RunIds, c \in {Null, Str(<<>>)} :
            AnalyzeCompletion(r, Completed(c))
            => /\ runs'[r].pc = "write"
               /\ runs'[r].analysisHtml = Str(ErrorReport)
               /\ runs'[r].score = Null]_vars
    /\ [][\A r \in RunIds :
            runs[r].analysisHtml = Str(ErrorReport) /\ AnalyzeWrite(r, TRUE)
            => /\ RowAfter(runs[r]).analysis_status = "completed"
               /\ RowAfter(runs[r]).analysis = Str(ErrorReport)
               /\ RowAfter(runs[r]).score = Null
               /\ Response("analyze-content", [idea_id |-> runs[r].idea_id], 200,
                           [success |-> TRUE, idea_id |-> runs[r].idea_id])
                     \in responses']_vars

\* the run has answered success and its row is completed with the
\* placeholder document and no score
C29_Witness ==
    /\ runs = <<>>
    /\ received.runs = 1
    /\ \E resp \in responses :
          /\ resp.fn = "analyze-content"
          /\ resp.status = 200
          /\ content_ideas[resp.request.idea_id.v].analysis_status = "completed"
          /\ content_ideas[resp.request.idea_id.v].analysis = Str(ErrorReport)
          /\ content_ideas[resp.request.idea_id.v].score = Null

\* C30: a request to analyze-content whose body carries no idea_id is answered
\* 500 with the error "Missing required field: idea_id"; its handler writes
\* nothing (every row is the same after it as before), never holds a
\* database client, and makes no search call and no completion call.
C30_MissingIdTouchesNothing ==
    /\ [](\A r \in RunIds :
            Falsy(runs[r].idea_id)
            => /\ runs[r].pc = "start"
               /\ ~runs[r].supabaseAdmin
               /\ runs[r].searchCalls = 0
               /\ runs[r].completionCalls = 0)
    /\ [][\A r \in RunIds :
            Falsy(runs[r].idea_id) /\ (\E w \in WriteOutcomes : AnalyzeStart(r, w))
            => /\ content_ideas' = content_ideas
               /\ runs' = RemoveAt(runs, r)
               /\ responses' = responses \cup
                    {Response("analyze-content", [idea_id |-> runs[r].idea_id], 500,
                              [error |-> "Missing required field: idea_id"])}]_vars
    /\ [](\A resp \in responses :
            resp.fn = "analyze-content" /\ Falsy(resp.request.idea_id)
            => resp.status = 500
               /\ resp.body = [error |-> "Missing required field: idea_id"])

\* a request without idea_id has been answered while a submitted row exists
C30_Witness ==
    /\ Len(content_ideas) >= 1
    /\ \E resp \in responses :
          /\ resp.fn = "analyze-content"
          /\ Falsy(resp.request.idea_id)
          /\ resp.status = 500
    /\ \A r \in RunIds : ~Falsy(runs[r].idea_id)

\* C27: the prompt of every completion request is the fixed text with the
\* inputs substituted unaltered: the title after "Title:", the whole
\* serialized search context after "Web Search Results:", and the template
\* with the title, verbatim, in the place of its placeholder, whatever
\* characters the title holds.
C27_TitleVerbatimInSlot ==
    \A r \in RunIds :
       runs[r].prompt # Null
       => LET title == content_ideas[runs[r].idea_id.v].title.v
          IN runs[r].prompt.v =
               <<"INSTRUCTIONS", "Title:">> \o title
               \o <<"Web Search Results:">> \o stringify(runs[r].searchContext)
               \o <<"HTML TEMPLATE TO COMPLETE:", "BLUEPRINT_BEFORE_H2">>
               \o title \o <<"BLUEPRINT_AFTER_H2">>

\* s occurs in t as a run of consecutive characters
Infix(s, t) ==
    \E i \in 0..(Len(t) - Len(s)) : SubSeq(t, i + 1, i + Len(s)) = s

\* what a fenced digest text encloses: the text after the opening fence,
\* without the closing fence when there is one, and without the whitespace
\* around it
Enclosed(c) ==
    LET rest == SubSeq(c, FENCE_PREFIX_LEN + 1, Len(c))
        n == Len(rest) - FENCE_SUFFIX_LEN
    IN trim(IF n >= 0 /\ SubSeq(rest, n + 1, Len(rest)) = CLOSING_FENCE
            THEN SubSeq(rest, 1, n) ELSE rest)

\* C25: fence normalization removes only the fence wrapper, in the analysis
\* flow and in the digest flow: a completion text that does not begin with
\* the html fence is kept as it is (in the digest, up to the whitespace
\* around it), and of a text that begins with the fence, with or without a
\* closing fence, every character of the enclosed content is kept.
C25_OnlyFenceRemoved ==
    /\ [][\A r \in RunIds, c \in Contents \ {Null, Str(<<>>)} :
            AnalyzeCompletion(r, Completed(c))
            => LET kept == runs'[r].analysisHtml.v
               IN IF Head(c.v) = FENCE_OPEN
                  THEN Infix(SelectSeq(c.v, LAMBDA x : x \notin {FENCE_OPEN, FENCE, NL}),
                             kept)
                  ELSE kept = c.v]_vars
    /\ [][\A d \in 1..Len(digests), c \in DigestContents \ {Null} :
            DigestCompletion(d, [fetch |-> "response", ok |-> TRUE,
                                 body |-> "choices", content |-> c])
            => LET kept == digests'[d].insightsHtml.v
               IN IF startsWith(trim(c.v), DIGEST_FENCE)
                  THEN Infix(Enclosed(trim(c.v)), kept)
                  ELSE kept = trim(c.v)]_vars

\* C26: in the analysis flow and in the digest flow alike, a search answer
\* with results leaves the handler with the first SEARCH_CONTEXT_LIMIT of
\* them at most, in the provider's order, however many there are, and an
\* answer with zero results leaves it with the empty context; in both cases
\* the handler goes on to the completion call.
C26_ContextAtMostFive ==
    /\ [][\A r \in RunIds, out \in SearchOutcomes :
            /\ out.fetch = "response"
            /\ out.body.shape = "results"
            /\ AnalyzeSearch(r, out)
            => /\ runs'[r].pc = "completion"
               /\ Len(runs'[r].searchContext) <= SEARCH_CONTEXT_LIMIT
               /\ runs'[r].searchContext =
                    SubSeq(out.body.results, 1, Len(runs'[r].searchContext))
               /\ out.body.results = <<>> => runs'[r].searchContext = <<>>]_vars
    /\ [][\A d \in 1..Len(digests), out \in SearchOutcomes :
            /\ out.fetch = "response"
            /\ out.ok
            /\ out.body.shape = "results"
            /\ DigestSearch(d, out)
            => /\ digests'[d].pc = "completion"
               /\ Len(digests'[d].searchContext) <= SEARCH_CONTEXT_LIMIT
               /\ digests'[d].searchContext =
                    SubSeq(out.body.results, 1, Len(digests'[d].searchContext))
               /\ out.body.results = <<>> => digests'[d].searchContext = <<>>]_vars

\* the answers of the digest function with a given status
DigestResponses(status) ==
    {resp \in responses : resp.fn = "generate-daily-insights" /\ resp.status = status}

====
